---- MODULE Spec2Model ----
(***************************************************************************)
(* Twitter -> Telegram monitor bot (main.py, twitter_client.py,            *)
(* telegram_client.py, keywords.py, config.py).                            *)
(*                                                                         *)
(* Strings that the code inspects character by character (keywords, tweet  *)
(* texts, queries) are sequences of one-character strings.  An absent      *)
(* value (Python None, an empty file) is the empty sequence, a present     *)
(* value v is <<v>>.                                                       *)
(***************************************************************************)
EXTENDS Integers, Sequences, FiniteSets, TLC

\* ------------------------------------------------------------------ bounds

\* Tweet identifiers known to the search collaborator are 1..MaxId.
MaxId == 2

\* Largest number of tweets one search response carries
\* (max_results_per_query, 20 in main.py, scaled down).
MaxResults == 1

\* Largest number of text fragments a text given to categorize_tweet is made of.
MaxFragments == 2

\* Largest number of category names given to build_optimized_query.
MaxSelected == 2

Ids == 1..MaxId

\* Creation timestamps: two instants are enough for ties and inversions.
Times == {1, 2}

\* like_count values a response may carry for a tweet (metrics change
\* between two calls, the rest of a tweet does not).
Likes == {0, 1}

None == <<>>

Some(v) == <<v>>

\* ------------------------------------------------------------- sequences

RECURSIVE JoinSep(_, _)
\* sep.join(parts)
JoinSep(parts, sep) ==
    IF parts = <<>> THEN <<>>
    ELSE IF Len(parts) = 1 THEN parts[1]
    ELSE parts[1] \o sep \o JoinSep(Tail(parts), sep)

SeqRange(s) == {s[i] : i \in 1..Len(s)}

RECURSIVE InsertDesc(_, _)
\* x put into s (descending by .k) behind every element whose key is >= x.k
InsertDesc(s, x) ==
    IF s = <<>> THEN <<x>>
    ELSE IF Head(s).k >= x.k THEN <<Head(s)>> \o InsertDesc(Tail(s), x)
    ELSE <<x>> \o s

RECURSIVE SortDescPairs(_)
SortDescPairs(s) ==
    IF s = <<>> THEN <<>>
    ELSE InsertDesc(SortDescPairs(SubSeq(s, 1, Len(s) - 1)), s[Len(s)])

\* sorted(s, key=..., reverse=True) on a sequence of [k |-> key, v |-> value]:
\* descending by key; Python's sort is stable, also with reverse=True, so equal
\* keys keep their original order.
SortedReverse(s) == [i \in 1..Len(s) |-> SortDescPairs(s)[i].v]

\* ------------------------------------------------------------ keywords.py

\* KEYWORDS: the first three categories of the catalog in their dict order,
\* each with keywords taken from its list, in the order of the list.
KEYWORDS == <<
    [category |-> "blockchain_launches",
     keywords |-> <<
        <<"n","e","w"," ","b","l","o","c","k","c","h","a","i","n">>,
        <<"b","l","o","c","k","c","h","a","i","n"," ","l","a","u","n","c","h">>,
        <<"l","a","u","n","c","h","i","n","g"," ","b","l","o","c","k","c","h","a","i",
          "n">>,
        <<"n","e","w"," ","L","1">>,
        <<"n","e","w"," ","L","2">>,
        <<"l","a","y","e","r"," ","1"," ","l","a","u","n","c","h">>,
        <<"t","e","s","t","n","e","t"," ","l","i","v","e">> >>],
    [category |-> "grants_programs",
     keywords |-> <<
        <<"g","r","a","n","t","s"," ","p","r","o","g","r","a","m">>,
        <<"D","e","F","i"," ","g","r","a","n","t","s">>,
        <<"n","e","w"," ","g","r","a","n","t","s"," ","p","r","o","g","r","a","m">>,
        <<"g","e","t"," ","f","u","n","d","e","d">> >>],
    [category |-> "funding_rounds",
     keywords |-> <<
        <<"p","r","e","-","s","e","e","d">>,
        <<"v","a","l","u","a","t","i","o","n">>,
        <<"l","e","d"," ","b","y">> >>] >>

Categories == {KEYWORDS[i].category : i \in 1..Len(KEYWORDS)}

LowerMap ==
    [A |-> "a", B |-> "b", C |-> "c", D |-> "d", E |-> "e", F |-> "f", G |-> "g",
     H |-> "h", I |-> "i", J |-> "j", K |-> "k", L |-> "l", M |-> "m", N |-> "n",
     O |-> "o", P |-> "p", Q |-> "q", R |-> "r", S |-> "s", T |-> "t", U |-> "u",
     V |-> "v", W |-> "w", X |-> "x", Y |-> "y", Z |-> "z"]

\* str.lower()
Lower(s) == [i \in 1..Len(s) |-> IF s[i] \in DOMAIN LowerMap THEN LowerMap[s[i]] ELSE s[i]]

\* `sub in s` on strings
Contains(s, sub) ==
    \E i \in 0..(Len(s) - Len(sub)) : SubSeq(s, i + 1, i + Len(sub)) = sub

get_category_priority(category) ==
    CASE category = "grants_programs" -> 10
      [] category = "funding_rounds" -> 9
      [] category = "blockchain_launches" -> 8
      [] category = "investment_opportunities" -> 7
      [] category = "founder_signals" -> 6
      [] category = "ecosystem_growth" -> 5
      [] category = "hackathons_buildathons" -> 4
      [] OTHER -> 3

\* a bug: the keyword compared as it is written, `keyword in tweet_lower`
MatchesAsWritten(e, tweet_lower) ==
    Cardinality({j \in 1..Len(e.keywords) : Contains(tweet_lower, e.keywords[j])})

\* the number of keywords of catalog entry e found in the lower-cased text
Matches(e, tweet_lower) ==
    Cardinality({j \in 1..Len(e.keywords) : Contains(tweet_lower, Lower(e.keywords[j]))})

categorize_tweet(tweet_text) ==
    LET tweet_lower == Lower(tweet_text)
        hit == SelectSeq(KEYWORDS, LAMBDA e : Matches(e, tweet_lower) > 0)
        category_scores ==
            [i \in 1..Len(hit) |->
                [k |-> Matches(hit[i], tweet_lower) * get_category_priority(hit[i].category),
                 v |-> hit[i].category]]
    IN SortedReverse(category_scores)

\* f'"{kw}"' if ' ' in kw else kw
QuoteIfPhrase(kw) == IF " " \in SeqRange(kw) THEN <<"\"">> \o kw \o <<"\"">> ELSE kw

QueryFilters(category) ==
    IF category \in {"grants_programs", "funding_rounds"}
    THEN <<" ","-","j","o","b"," ","-","h","i","r","i","n","g">>
    ELSE IF category = "blockchain_launches"
    THEN <<" ","l","a","n","g",":","e","n">>
    ELSE <<>>

\* the hand-written queries of get_search_queries(combine_categories=True);
\* they carry no "priority" key
priority_queries == <<
    [category |-> "grants_and_funding",
     query |->
        <<"(","\"","g","r","a","n","t","s"," ","p","r","o","g","r","a","m","\""," ","O",
          "R"," ","\"","d","e","v","e","l","o","p","e","r"," ","g","r","a","n","t","s",
          "\""," ","O","R"," ","\"","g","r","a","n","t"," ","a","p","p","l","i","c","a",
          "t","i","o","n","s","\""," ","O","R"," ","\"","e","c","o","s","y","s","t","e",
          "m"," ","g","r","a","n","t","s","\"",")"," ","-","j","o","b"," ","-","h","i",
          "r","i","n","g">>],
    [category |-> "blockchain_launches",
     query |->
        <<"(","\"","m","a","i","n","n","e","t"," ","l","a","u","n","c","h","\""," ","O",
          "R"," ","\"","n","e","w"," ","L","1","\""," ","O","R"," ","\"","n","e","w",
          " ","L","2","\""," ","O","R"," ","\"","c","h","a","i","n"," ","l","a","u","n",
          "c","h","\""," ","O","R"," ","\"","n","e","t","w","o","r","k"," ","l","a","u",
          "n","c","h","\"",")"," ","-","t","e","s","t","n","e","t">>],
    [category |-> "fundraising",
     query |->
        <<"(","\"","r","a","i","s","e","d"," ","$","\""," ","O","R"," ","\"","s","e",
          "e","d"," ","r","o","u","n","d","\""," ","O","R"," ","\"","s","e","r","i","e",
          "s"," ","A","\""," ","O","R"," ","\"","c","l","o","s","e","d"," ","f","u","n",
          "d","i","n","g","\""," ","O","R"," ","\"","s","e","c","u","r","e","d"," ","f",
          "u","n","d","i","n","g","\"",")"," ","-","j","o","b">>],
    [category |-> "investment_seeking",
     query |->
        <<"(","\"","s","e","e","k","i","n","g"," ","i","n","v","e","s","t","m","e","n",
          "t","\""," ","O","R"," ","\"","l","o","o","k","i","n","g"," ","f","o","r"," ",
          "i","n","v","e","s","t","o","r","s","\""," ","O","R"," ","\"","r","a","i","s",
          "i","n","g"," ","c","a","p","i","t","a","l","\""," ","O","R"," ","\"","i","n",
          "v","e","s","t","o","r"," ","d","e","c","k","\"",")">>] >>

\* x.get("priority", 5)
PriorityKey(x) == IF "priority" \in DOMAIN x THEN x.priority ELSE 5

\* a bug: the queries left in catalog order
SortQueriesNot(queries) == queries

\* queries.sort(key=lambda x: x.get("priority", 5), reverse=True)
SortQueries(queries) ==
    SortedReverse([i \in 1..Len(queries) |-> [k |-> PriorityKey(queries[i]), v |-> queries[i]]])

\* get_search_queries(combine_categories)
get_search_queries_mode(combine_categories) ==
    LET queries ==
            [i \in 1..Len(KEYWORDS) |->
                LET category == KEYWORDS[i].category
                    keywords == KEYWORDS[i].keywords
                    query_parts == [j \in 1..Len(keywords) |-> QuoteIfPhrase(keywords[j])]
                    query == JoinSep(query_parts, <<" ","O","R"," ">>)
                IN [category |-> category,
                    query |-> query \o QueryFilters(category),
                    priority |-> get_category_priority(category)]]
    IN SortQueries(IF combine_categories THEN priority_queries ELSE queries)

\* get_search_queries() as check_and_notify calls it
get_search_queries == get_search_queries_mode(FALSE)

\* get_advanced_filters()["exclude_noise"]
exclude_noise == <<" ","-","j","o","b"," ","-","h","i","r","i","n","g"," ","-","g","i","v","e","a",
      "w","a","y"," ","-","a","i","r","d","r","o","p">>

\* f'"{kw}"'
Quote(kw) == <<"\"">> \o kw \o <<"\"">>

\* a bug: every keyword of the category taken
top_keywords_all(keywords) == keywords

\* keywords[:5]
top_keywords(keywords) == SubSeq(keywords, 1, IF Len(keywords) < 5 THEN Len(keywords) ELSE 5)

\* KEYWORDS[category]
KeywordsOf(category) ==
    KEYWORDS[CHOOSE i \in 1..Len(KEYWORDS) : KEYWORDS[i].category = category].keywords

build_optimized_query(categories, use_filters) ==
    LET selected == SelectSeq(categories, LAMBDA c : c \in Categories)
        query_parts ==
            [i \in 1..Len(selected) |->
                LET top == top_keywords(KeywordsOf(selected[i]))
                    category_query ==
                        JoinSep([j \in 1..Len(top) |-> Quote(top[j])], <<" ","O","R"," ">>)
                IN <<"(">> \o category_query \o <<")">>]
        base_query == JoinSep(query_parts, <<" ","O","R"," ">>)
    IN IF use_filters
       THEN base_query \o exclude_noise \o <<" ","f","i","l","t","e","r",":","l","i","n","k","s">>
       ELSE base_query

\* ------------------------------------------------------ twitter_client.py

\* Sample tweet texts; the text of a tweet is fixed by its identifier.
Texts == <<
    <<"g","e","t"," ","f","u","n","d","e","d"," ","p","r","e","-","s","e","e","d">>,
    <<"g","m">>,
    <<"t","e","s","t","n","e","t"," ","l","i","v","e",":"," ","n","e","w"," ","L","1",
      " ","D","E","F","I"," ","G","R","A","N","T","S">>,
    <<"N","e","w"," ","L","1">> >>

TweetText(id) == Texts[((id - 1) % Len(Texts)) + 1]

\* categorize_tweet(tweet.text) of every tweet, computed once
Categorized == [id \in Ids |-> categorize_tweet(TweetText(id))]

\* Pieces of tweet text: keywords of the catalog in several spellings and
\* numbers, and text that matches nothing.
Fragments == <<
    <<"L","a","u","n","c","h","i","n","g"," ","b","l","o","c","k","c","h","a","i","n",
      " ","l","a","u","n","c","h",":"," ","n","e","w"," ","L","1",","," ","n","e","w",
      " ","L","2",","," ","t","e","s","t","n","e","t"," ","l","i","v","e">>,
    <<"N","e","w"," ","g","r","a","n","t","s"," ","p","r","o","g","r","a","m",":"," ",
      "D","e","F","i"," ","g","r","a","n","t","s",","," ","g","e","t"," ","f","u","n",
      "d","e","d">>,
    <<"p","r","e","-","s","e","e","d">>,
    <<"g","m">>,
    <<"N","E","W"," ","L","1">>,
    <<"v","a","l","u","a","t","i","o","n"," ","l","e","d"," ","b","y">> >>

\* The texts categorize_tweet is called with: up to MaxFragments fragments,
\* separated by a space.
TextInputs ==
    {JoinSep([i \in 1..Len(fs) |-> Fragments[fs[i]]], <<" ">>) :
        fs \in UNION {[1..n -> 1..Len(Fragments)] : n \in 0..MaxFragments}}

\* The lists build_optimized_query is called with: names of the catalog and
\* one that is not in it, up to MaxSelected of them.
Selections == UNION {[1..n -> Categories \cup {"memecoins"}] : n \in 0..MaxSelected}

NoCall ==
    [fn |-> "none", tweet_text |-> <<>>, combine_categories |-> FALSE,
     categories |-> <<>>, use_filters |-> FALSE]

\* The calls of the functions of keywords.py with their arguments
Calls ==
    {[NoCall EXCEPT !.fn = "categorize_tweet", !.tweet_text = t] : t \in TextInputs}
    \cup {[NoCall EXCEPT !.fn = "get_search_queries", !.combine_categories = b] :
            b \in BOOLEAN}
    \cup {[NoCall EXCEPT !.fn = "build_optimized_query", !.categories = cs,
                         !.use_filters = b] : cs \in Selections, b \in BOOLEAN}

VARIABLES
    pc,               \* position of the process
    call,             \* keywords.py called on its own: the function and its arguments
    result,           \* keywords.py called on its own: the value returned
    mode,             \* "once" (--once) or "forever"
    config,           \* Config: the value of every required field
    created,          \* the search collaborator's created_at of every tweet
    metrics,          \* the like_count values the search collaborator reports
    known,            \* the tweets the search collaborator has indexed
    file,             \* last_tweet_id.txt: [exists, content]
    last_tweet_id,    \* check_and_notify: the value load_last_tweet_id returned
    qi,               \* search_multiple_queries: index of the query to run next
    all_tweets,       \* search_multiple_queries: the dict, in insertion order
    tweets,           \* check_and_notify: the sorted result
    category_counter, \* check_and_notify: Counter of categories
    ti,               \* send_tweets_batch: index of the tweet to send next
    success_count,    \* send_tweets_batch: sends that returned True
    outbox,           \* history: messages handed to bot.send_message in this cycle
    startups,         \* history: startup notifications handed to bot.send_message
    prior,            \* history: ids of the tweet messages of earlier cycles
    first_seen,       \* history of the search, kept until the batch begins:
                      \*   id -> [rec: the first raw record returned, pos: its rank]
    again,            \* history of the search, kept until the batch begins:
                      \*   ids a later query returned with another record
    searched,         \* history of the search, kept until the batch begins:
                      \*   how each search_tweets call ended, "ok" or "error"
    save_result,      \* history: how save_last_tweet_id ended in this cycle
    reads,            \* history: calls of load_last_tweet_id in this cycle
    writes,           \* history: calls of save_last_tweet_id in this cycle
    since_ids,        \* history: the since_id values the search calls of this
                      \*   cycle were given
    file0,            \* history: the file as it was when the cycle started
    outcome,          \* history: how the cycle ended
    exit_status       \* "running", or the exit status of the process

vars == <<pc, call, result, mode, config, created, metrics, known, file, last_tweet_id, qi,
          all_tweets, tweets, category_counter, ti, success_count, outbox, startups, prior,
          first_seen,
          again, searched, save_result, reads, writes, since_ids, file0, outcome,
          exit_status>>

kwVars == <<call, result>>

storeVars == <<reads, writes, since_ids>>

envVars == <<mode, config, created, metrics, known>>

searchVars == <<qi, all_tweets, first_seen, again, searched>>

batchVars == <<ti, success_count>>

\* The raw records response.data may hold for since_id: at most MaxResults
\* tweets, no tweet twice, every id greater than since_id when one is given.
Visible(since_id) == {id \in known : since_id = None \/ id > since_id[1]}

RawItems(since_id) == [id : Visible(since_id), likes : metrics]

Responses(since_id) ==
    {r \in UNION {[1..n -> RawItems(since_id)] : n \in 0..MaxResults} :
        \A i, j \in 1..Len(r) : i # j => r[i].id # r[j].id}

\* search_tweets, the formatting of response.data into tweet dicts
search_tweets(data) ==
    [i \in 1..Len(data) |->
        [id |-> data[i].id,
         text |-> TweetText(data[i].id),
         created_at |-> created[data[i].id],
         likes |-> data[i].likes,
         categories |-> Categorized[data[i].id]]]

\* a bug: a list that takes every tweet instead of a dict keyed by id
DedupKeepsAll(all, found) == all \o found

RECURSIVE DedupLastWins(_, _)
\* a bug: all_tweets[tweet['id']] = tweet without the `not in` test, so a later
\* occurrence replaces the value (a dict keeps the key's first position)
DedupLastWins(all, found) ==
    IF found = <<>> THEN all
    ELSE IF \E i \in 1..Len(all) : all[i].id = Head(found).id
         THEN DedupLastWins(
                [i \in 1..Len(all) |-> IF all[i].id = Head(found).id THEN Head(found) ELSE all[i]],
                Tail(found))
         ELSE DedupLastWins(Append(all, Head(found)), Tail(found))

RECURSIVE Dedup(_, _)
\* for tweet in tweets: if tweet['id'] not in all_tweets: all_tweets[id] = tweet
Dedup(all, found) ==
    IF found = <<>> THEN all
    ELSE IF \E i \in 1..Len(all) : all[i].id = Head(found).id
         THEN Dedup(all, Tail(found))
         ELSE Dedup(Append(all, Head(found)), Tail(found))

\* a bug: reverse=True left out, oldest first
SortTweetsAscending(all) ==
    SortedReverse([i \in 1..Len(all) |-> [k |-> 0 - all[i].created_at, v |-> all[i]]])

\* sorted(all_tweets.values(), key=lambda x: x['created_at'], reverse=True)
SortTweets(all) ==
    SortedReverse([i \in 1..Len(all) |-> [k |-> all[i].created_at, v |-> all[i]]])

\* search_multiple_queries: the loop over the queries, search_tweets returning
\* the formatted answer of the collaborator for each (an empty answer also
\* stands for a call that raised TweepyException and returned [])
RECURSIVE PlainLoop(_, _, _)
PlainLoop(queries, responses, all) ==
    IF queries = <<>>
    THEN all
    ELSE PlainLoop(Tail(queries), Tail(responses),
                   Dedup(all, search_tweets(Head(responses))))

search_multiple_queries(queries, responses) ==
    SortTweets(PlainLoop(queries, responses, <<>>))

\* search_multiple_queries_async: for tweet in tweets, filling all_tweets and
\* new_tweets
RECURSIVE CollectNew(_, _)
CollectNew(acc, found) ==
    IF found = <<>> THEN acc
    ELSE IF \E i \in 1..Len(acc.all_tweets) : acc.all_tweets[i].id = Head(found).id
         THEN CollectNew(acc, Tail(found))
         ELSE CollectNew([all_tweets |-> Append(acc.all_tweets, Head(found)),
                          new_tweets |-> Append(acc.new_tweets, Head(found))],
                         Tail(found))

\* a bug: `if callback:` without the test of new_tweets
CallbackAlways(callback, new_tweets) == callback

\* if callback and new_tweets
CallbackWanted(callback, new_tweets) == callback /\ new_tweets # <<>>

\* search_multiple_queries_async: the loop over the queries; callbacks lists
\* the calls of the callback with their arguments
RECURSIVE AsyncLoop(_, _, _, _)
AsyncLoop(queries, responses, callback, st) ==
    IF queries = <<>>
    THEN st
    ELSE LET category == Head(queries).category
             got == CollectNew([all_tweets |-> st.all_tweets, new_tweets |-> <<>>],
                               search_tweets(Head(responses)))
         IN AsyncLoop(Tail(queries), Tail(responses), callback,
                      [all_tweets |-> got.all_tweets,
                       callbacks |->
                           IF CallbackWanted(callback, got.new_tweets)
                           THEN Append(st.callbacks,
                                       [new_tweets |-> got.new_tweets, category |-> category])
                           ELSE st.callbacks])

\* what search_multiple_queries_async returns, with the calls it made of a
\* callback that returns
search_multiple_queries_async(queries, responses, callback) ==
    LET st == AsyncLoop(queries, responses, callback,
                        [all_tweets |-> <<>>, callbacks |-> <<>>])
    IN [sorted_tweets |-> SortTweets(st.all_tweets), callbacks |-> st.callbacks]

\* ---------------------------------------------------------------- main.py

AbsentFile == [exists |-> FALSE, content |-> None]

FileWith(content) == [exists |-> TRUE, content |-> content]

\* load_last_tweet_id when the read raises nothing
load_last_tweet_id(f) == IF f.exists /\ f.content # None THEN f.content ELSE None

MaxOf(S) == CHOOSE m \in S : \A x \in S : x <= m

\* a bug: min for max
oldest_tweet_id(ts) == CHOOSE m \in {ts[i].id : i \in 1..Len(ts)} :
                            \A i \in 1..Len(ts) : m <= ts[i].id

newest_tweet_id(ts) == MaxOf({ts[i].id : i \in 1..Len(ts)})

\* category_counter[category] += 1 on a Counter: a missing key counts as 0
Increment(counter, category) ==
    [c \in DOMAIN counter \cup {category} |->
        IF c = category
        THEN (IF c \in DOMAIN counter THEN counter[c] ELSE 0) + 1
        ELSE counter[c]]

\* a bug: only the first category of a tweet counted
first_category(tweet) ==
    IF tweet.categories = <<>> THEN <<>> ELSE <<Head(tweet.categories)>>

\* tweet.get('categories', []): search_tweets gives every tweet the key
tweet_categories(tweet) == tweet.categories

\* the inner loop: for category in tweet.get('categories', [])
RECURSIVE CountTweet(_, _)
CountTweet(counter, categories) ==
    IF categories = <<>>
    THEN counter
    ELSE CountTweet(Increment(counter, Head(categories)), Tail(categories))

\* category_counter after the loop over tweets and their categories
RECURSIVE CountCategories(_)
CountCategories(ts) ==
    IF ts = <<>>
    THEN <<>>
    ELSE CountTweet(CountCategories(SubSeq(ts, 1, Len(ts) - 1)),
                    tweet_categories(ts[Len(ts)]))

\* ------------------------------------------------------ telegram_client.py

\* format_tweet_message: what of the tweet the message text carries
format_tweet_message(tweet) ==
    [kind |-> "tweet", id |-> tweet.id, likes |-> tweet.likes,
     categories |-> tweet.categories, count |-> 0, tally |-> <<>>]

\* send_summary: the message it builds
summary_message(tweet_count, categories_found) ==
    IF tweet_count = 0
    THEN [kind |-> "no_new_tweets", id |-> 0, likes |-> 0, categories |-> <<>>,
          count |-> 0, tally |-> <<>>]
    ELSE [kind |-> "summary", id |-> 0, likes |-> 0, categories |-> <<>>,
          count |-> tweet_count, tally |-> categories_found]

startup_message ==
    [kind |-> "startup", id |-> 0, likes |-> 0, categories |-> <<>>,
     count |-> 0, tally |-> <<>>]

\* a call of send_message: delivered is False when bot.send_message raised
\* TelegramError
Sent(message, delivered) == [msg |-> message, ok |-> delivered]

TweetIdsIn(box) == {box[i].msg.id : i \in {j \in 1..Len(box) : box[j].msg.kind = "tweet"}}

\* ---------------------------------------------------------------- config.py

required_fields == {"TWITTER_BEARER_TOKEN", "TELEGRAM_BOT_TOKEN", "TELEGRAM_CHAT_ID"}

\* What os.getenv gives for a field: None, the empty string or a value
Configs == [required_fields -> {None, Some(<<>>), Some(<<"x">>)}]

\* not getattr(cls, field)
Missing(cfg, field) == cfg[field] = None \/ cfg[field][1] = <<>>

\* a bug: TELEGRAM_CHAT_ID left out of required_fields
validate_two_fields(cfg) ==
    {field \in required_fields \ {"TELEGRAM_CHAT_ID"} : Missing(cfg, field)} = {}

\* Config.validate: TRUE when it returns True, FALSE when it raises ValueError
validate(cfg) == {field \in required_fields : Missing(cfg, field)} = {}

\* ------------------------------------------------------------- the process

\* The file a process finds: none (a first run) or one an earlier run left.
InitFiles == {AbsentFile} \cup {FileWith(Some(id)) : id \in Ids}

\* Identifiers grow with time: the oldest tweet at instant 1, the others at 2.
Recency == [id \in Ids |-> IF id = 1 THEN 1 ELSE 2]

InitCycle ==
    /\ qi = 1
    /\ all_tweets = <<>>
    /\ tweets = <<>>
    /\ category_counter = <<>>
    /\ ti = 1
    /\ success_count = 0
    /\ outbox = <<>>
    /\ startups = 0
    /\ prior = {}
    /\ first_seen = <<>>
    /\ again = {}
    /\ searched = <<>>
    /\ save_result = "none"
    /\ reads = 0
    /\ writes = 0
    /\ since_ids = {}
    /\ file0 = file
    /\ outcome = "none"
    /\ exit_status = "running"

InitLocals ==
    /\ last_tweet_id = None
    /\ InitCycle

Init ==
    /\ pc = "main"
    /\ mode \in {"once", "forever"}
    /\ config \in Configs
    /\ created = Recency
    /\ metrics = Likes
    /\ known = Ids
    /\ file \in InitFiles
    /\ call = NoCall
    /\ result = None
    /\ InitLocals

\* The same process in a steady world: the metrics never change and the
\* collaborator has indexed no more tweets than one response carries.  The
\* control flow of the loop reads neither, so this is enough to follow it.
InitSteady ==
    /\ pc = "main"
    /\ mode \in {"once", "forever"}
    /\ config \in Configs
    /\ created = Recency
    /\ metrics = {0}
    /\ known = 1..MaxResults
    /\ file \in InitFiles
    /\ call = NoCall
    /\ result = None
    /\ InitLocals

\* search_multiple_queries on its own: any checkpoint, any timestamps
InitAgg ==
    /\ pc = "load"
    /\ mode = "once"
    /\ config = [field \in required_fields |-> Some(<<"x">>)]
    /\ created \in [Ids -> Times]
    /\ metrics = Likes
    /\ known = Ids
    /\ file \in InitFiles
    /\ call = NoCall
    /\ result = None
    /\ InitLocals

\* keywords.py on its own: one call of one of its functions
InitKeywords ==
    /\ pc = "call"
    /\ mode = "once"
    /\ config = [field \in required_fields |-> Some(<<"x">>)]
    /\ created = Recency
    /\ metrics = Likes
    /\ known = Ids
    /\ file = AbsentFile
    /\ call \in Calls
    /\ result = None
    /\ InitLocals

\* main: Config.validate, then run_once or run_continuous
Main ==
    /\ pc = "main"
    /\ IF ~validate(config)
       THEN pc' = "exit" /\ exit_status' = "error"
       ELSE pc' = (IF mode = "once" THEN "load" ELSE "startup") /\ UNCHANGED exit_status
    /\ UNCHANGED <<kwVars, storeVars, startups, envVars, file, last_tweet_id, searchVars, tweets, category_counter,
                   batchVars, outbox, prior, save_result, file0, outcome>>

\* run_continuous: the startup notification
RunContinuousStartup ==
    /\ pc = "startup"
    /\ \/ /\ \E delivered \in BOOLEAN :
                outbox' = Append(outbox, Sent(startup_message, delivered))
          /\ startups' = startups + 1
          /\ pc' = "load"
          /\ UNCHANGED exit_status
       \/ \* an exception that is no TelegramError leaves run_continuous
          /\ pc' = "exit"
          /\ exit_status' = "error"
          /\ UNCHANGED <<outbox, startups>>
    /\ UNCHANGED <<kwVars, storeVars, envVars, file, last_tweet_id, searchVars, tweets, category_counter,
                   batchVars, prior, save_result, file0, outcome>>

\* a bug: no try/except around check_and_notify in run_continuous, an exception
\* ends the process
EndCycleUncaught(how) ==
    /\ outcome' = how
    /\ pc' = IF mode = "forever" /\ how # "failed" THEN "sleep" ELSE "exit"
    /\ exit_status' = IF how = "failed" THEN "error"
                      ELSE IF mode = "forever" THEN exit_status ELSE "ok"

\* a bug: run_once logs the exception and returns, no sys.exit(1)
EndCycleExitsZero(how) ==
    /\ outcome' = how
    /\ pc' = IF mode = "forever" THEN "sleep" ELSE "exit"
    /\ exit_status' = IF mode = "forever" THEN exit_status ELSE "ok"

\* a bug: `continue` in the except clause of run_continuous, a failed cycle is
\* tried again without the sleep
EndCycleRetriesAtOnce(how) ==
    /\ outcome' = how
    /\ pc' = IF mode = "forever" THEN (IF how = "failed" THEN "load" ELSE "sleep") ELSE "exit"
    /\ exit_status' = IF mode = "forever" THEN exit_status
                      ELSE IF how = "failed" THEN "error" ELSE "ok"

\* The end of check_and_notify as its caller sees it: run_continuous logs an
\* exception and sleeps, run_once exits with status 1 on an exception.
EndCycle(how) ==
    /\ outcome' = how
    /\ pc' = IF mode = "forever" THEN "sleep" ELSE "exit"
    /\ exit_status' = IF mode = "forever" THEN exit_status
                      ELSE IF how = "failed" THEN "error" ELSE "ok"

\* check_and_notify up to load_last_tweet_id; a read that raises gives None
CheckAndNotifyLoad ==
    /\ pc = "load"
    /\ \/ last_tweet_id' = load_last_tweet_id(file)
       \/ file.exists /\ last_tweet_id' = None
    /\ pc' = "search"
    /\ qi' = 1
    /\ all_tweets' = <<>>
    /\ first_seen' = <<>>
    /\ again' = {}
    /\ searched' = <<>>
    /\ save_result' = "none"
    /\ reads' = 1
    /\ writes' = 0
    /\ since_ids' = {}
    /\ tweets' = <<>>
    /\ category_counter' = <<>>
    /\ ti' = 1
    /\ success_count' = 0
    /\ prior' = prior \cup TweetIdsIn(outbox)
    /\ outbox' = <<>>
    /\ file0' = file
    /\ outcome' = "running"
    /\ UNCHANGED <<kwVars, startups, envVars, file, exit_status>>

\* a bug: the checkpoint written on the "no new tweets" path too
AfterSearchSavesEmpty(sorted) ==
    /\ tweets' = sorted
    /\ IF sorted = <<>>
       THEN /\ EndCycle("empty")
            /\ file' = FileWith(last_tweet_id)
            /\ UNCHANGED <<category_counter, outbox>>
       ELSE /\ category_counter' = CountCategories(sorted)
            /\ pc' = "batch"
            /\ UNCHANGED <<outcome, exit_status, outbox, file>>

\* a bug: the checkpoint written before the tweets are sent
AfterSearchSavesFirst(sorted) ==
    /\ tweets' = sorted
    /\ IF sorted = <<>>
       THEN /\ EndCycle("empty")
            /\ UNCHANGED <<category_counter, outbox, file>>
       ELSE /\ category_counter' = CountCategories(sorted)
            /\ pc' = "batch"
            /\ file' = FileWith(Some(newest_tweet_id(sorted)))
            /\ UNCHANGED <<outcome, exit_status, outbox>>

\* What check_and_notify does with the sorted result: return when it is empty,
\* count the categories and go on to the batch otherwise.
AfterSearch(sorted) ==
    /\ tweets' = sorted
    /\ IF sorted = <<>>
       THEN /\ EndCycle("empty")
            /\ UNCHANGED <<category_counter, outbox, file>>
       ELSE /\ category_counter' = CountCategories(sorted)
            /\ pc' = "batch"
            /\ UNCHANGED <<outcome, exit_status, outbox, file>>

\* One round of the loop of search_multiple_queries: search_tweets made `found`
\* of the response data `data`.
SearchStep(data, found) ==
    LET ids == {data[i].id : i \in 1..Len(data)}
        at(x) == CHOOSE i \in 1..Len(data) : data[i].id = x
        new_before(x) == {i \in 1..(at(x) - 1) : data[i].id \notin DOMAIN first_seen}
    IN /\ all_tweets' = Dedup(all_tweets, found)
       /\ first_seen' =
            [x \in DOMAIN first_seen \cup ids |->
                IF x \in DOMAIN first_seen THEN first_seen[x]
                ELSE [rec |-> data[at(x)],
                      pos |-> Cardinality(DOMAIN first_seen) + Cardinality(new_before(x)) + 1]]
       /\ again' = again \cup {x \in ids \cap DOMAIN first_seen :
                                    data[at(x)] # first_seen[x].rec}
       /\ qi' = qi + 1

\* a bug: the exception caught around the loop of search_multiple_queries
\* instead of inside search_tweets, the remaining queries are skipped
SearchFailedSkipsRest ==
    /\ searched' = Append(searched, "error")
    /\ qi' = Len(get_search_queries) + 1
    /\ UNCHANGED <<all_tweets, first_seen, again>>

\* search_tweets when search_recent_tweets raises tweepy.TweepyException: the
\* error is logged, [] is returned and the loop goes on
SearchFailed ==
    /\ searched' = Append(searched, "error")
    /\ SearchStep(<<>>, <<>>)

\* a bug: since_id left at its default in the call of search_multiple_queries
since_id_default == None

\* the since_id check_and_notify gives search_multiple_queries, which gives it
\* to every search_tweets call
since_id == last_tweet_id

SearchTweets ==
    /\ pc = "search"
    /\ qi <= Len(get_search_queries)
    /\ \/ \E data \in Responses(since_id) :
            /\ searched' = Append(searched, "ok")
            /\ SearchStep(data, search_tweets(data))
       \/ SearchFailed
    /\ since_ids' = since_ids \cup {since_id}
    /\ UNCHANGED <<kwVars, reads, writes, startups, envVars, file, last_tweet_id, tweets,
                   category_counter, batchVars, outbox, prior, save_result, file0, outcome,
                   exit_status, pc>>

\* search_multiple_queries after its loop: the sort and the return to
\* check_and_notify
SearchReturn ==
    /\ pc = "search"
    /\ qi > Len(get_search_queries)
    /\ AfterSearch(SortTweets(all_tweets))
    /\ all_tweets' = <<>>
    /\ UNCHANGED <<kwVars, storeVars, startups, envVars, last_tweet_id, qi, first_seen, again, searched, batchVars,
                   prior, save_result, file0>>

\* a bug: the loop of send_tweets_batch left at the first send that fails
MoreToSendUntilFailure(delivered) == ti < Len(tweets) /\ delivered

\* for tweet in tweets: the loop goes on whatever send_tweet returned
MoreToSend(delivered) == ti < Len(tweets)

\* send_tweets_batch: one send_tweet
SendTweet ==
    /\ pc = "batch"
    /\ \E delivered \in BOOLEAN :
        /\ outbox' = Append(outbox, Sent(format_tweet_message(tweets[ti]), delivered))
        /\ success_count' = IF delivered THEN success_count + 1 ELSE success_count
        /\ pc' = IF MoreToSend(delivered) THEN "batch" ELSE "summary"
    /\ ti' = ti + 1
    /\ first_seen' = <<>>
    /\ again' = {}
    /\ searched' = <<>>
    /\ UNCHANGED <<kwVars, storeVars, startups, envVars, file, last_tweet_id, qi, all_tweets, tweets, category_counter,
                   prior, save_result, file0, outcome, exit_status>>

\* a bug: the summary given the number of tweets sent
tweet_count_sent == success_count

\* the tweet_count check_and_notify gives send_summary: len(tweets)
tweet_count == Len(tweets)

SendSummary ==
    /\ pc = "summary"
    /\ \E delivered \in BOOLEAN :
        outbox' = Append(outbox, Sent(summary_message(tweet_count, category_counter), delivered))
    /\ pc' = "save"
    /\ UNCHANGED <<kwVars, storeVars, startups, envVars, file, last_tweet_id, searchVars, tweets, category_counter,
                   batchVars, prior, save_result, file0, outcome, exit_status>>

\* save_last_tweet_id: open(LAST_TWEET_ID_FILE, 'w') creates or truncates the
\* file; when it raises the error is logged and the function returns
SaveOpen ==
    /\ pc = "save"
    /\ \/ /\ file' = FileWith(None)
          /\ pc' = "write"
          /\ UNCHANGED <<outcome, exit_status, save_result>>
       \/ /\ save_result' = "open_error"
          /\ UNCHANGED file
          /\ EndCycle("complete")
    /\ writes' = writes + 1
    /\ UNCHANGED <<kwVars, reads, since_ids, startups, envVars, last_tweet_id, searchVars,
                   tweets, category_counter, batchVars, outbox, prior, file0>>

\* save_last_tweet_id: f.write(str(tweet_id)) and the close; when it raises the
\* error is logged and the function returns
SaveWrite ==
    /\ pc = "write"
    /\ \/ file' = FileWith(Some(newest_tweet_id(tweets))) /\ save_result' = "saved"
       \/ UNCHANGED file /\ save_result' = "write_error"
    /\ EndCycle("complete")
    /\ UNCHANGED <<kwVars, storeVars, startups, envVars, last_tweet_id, searchVars, tweets, category_counter,
                   batchVars, outbox, prior, file0>>

\* a bug: the checkpoint saved in a finally clause, also when a send raised
CycleRaisesAndSaves ==
    /\ pc \in {"batch", "summary"}
    /\ file' = FileWith(Some(newest_tweet_id(tweets)))
    /\ EndCycle("failed")
    /\ UNCHANGED <<kwVars, storeVars, startups, envVars, last_tweet_id, searchVars, tweets,
                   category_counter, batchVars, outbox, prior, save_result, file0>>

\* An exception that no handler inside check_and_notify catches: raised by a
\* search call (anything but TweepyException) or a send (anything but
\* TelegramError), it leaves check_and_notify.
CycleRaises ==
    /\ pc \in {"search", "batch", "summary"}
    /\ EndCycle("failed")
    /\ UNCHANGED <<kwVars, storeVars, startups, envVars, file, last_tweet_id, searchVars, tweets, category_counter,
                   batchVars, outbox, prior, save_result, file0>>

\* a bug: the startup notification sent inside the loop of run_continuous
SleepThenNotify ==
    /\ pc = "sleep"
    /\ pc' = "startup"
    /\ UNCHANGED <<kwVars, storeVars, startups, envVars, file, last_tweet_id, searchVars, tweets,
                   category_counter, batchVars, outbox, prior, save_result, file0, outcome,
                   exit_status>>

\* run_continuous: asyncio.sleep(CHECK_INTERVAL_MINUTES * 60) returns
Sleep ==
    /\ pc = "sleep"
    /\ pc' = "load"
    /\ UNCHANGED <<kwVars, storeVars, startups, envVars, file, last_tweet_id, searchVars, tweets, category_counter,
                   batchVars, outbox, prior, save_result, file0, outcome, exit_status>>

\* main: KeyboardInterrupt ends the process, "Bot stopped by user"
KeyboardInterrupt ==
    /\ pc \notin {"main", "exit"}
    /\ pc' = "exit"
    /\ exit_status' = "ok"
    /\ UNCHANGED <<kwVars, storeVars, startups, envVars, file, last_tweet_id, searchVars, tweets, category_counter,
                   batchVars, outbox, prior, save_result, file0, outcome>>

processVars ==
    <<envVars, file, last_tweet_id, searchVars, tweets, category_counter, batchVars,
      outbox, startups, prior, save_result, storeVars, file0, outcome, exit_status>>

CategorizeTweet ==
    /\ pc = "call"
    /\ call.fn = "categorize_tweet"
    /\ result' = categorize_tweet(call.tweet_text)
    /\ pc' = "returned"
    /\ UNCHANGED <<call, processVars>>

GetSearchQueries ==
    /\ pc = "call"
    /\ call.fn = "get_search_queries"
    /\ result' = get_search_queries_mode(call.combine_categories)
    /\ pc' = "returned"
    /\ UNCHANGED <<call, processVars>>

BuildOptimizedQuery ==
    /\ pc = "call"
    /\ call.fn = "build_optimized_query"
    /\ result' = build_optimized_query(call.categories, call.use_filters)
    /\ pc' = "returned"
    /\ UNCHANGED <<call, processVars>>

\* Every tweet created at the same instant
Simultaneous == [id \in Ids |-> 1]

\* The two aggregators on their own, called one after the other with the same
\* queries, the same since_id and the same answers of the search collaborator,
\* the second with or without a callback.
InitAsync ==
    /\ pc = "call"
    /\ mode = "once"
    /\ config = [field \in required_fields |-> Some(<<"x">>)]
    /\ created \in {Recency, Simultaneous}
    /\ metrics = Likes
    /\ known = Ids
    /\ file = AbsentFile
    /\ last_tweet_id \in {None, Some(1)}
    /\ call \in [fn : {"search_multiple_queries"},
                 responses : [1..Len(get_search_queries) -> Responses(since_id)],
                 callback : BOOLEAN]
    /\ result = None
    /\ InitCycle

SearchMultipleQueries ==
    /\ pc = "call"
    /\ call.fn = "search_multiple_queries"
    /\ tweets' = search_multiple_queries(get_search_queries, call.responses)
    /\ pc' = "call_async"
    /\ UNCHANGED <<kwVars, storeVars, startups, envVars, file, last_tweet_id, searchVars,
                   category_counter, batchVars, outbox, prior, save_result, file0, outcome,
                   exit_status>>

SearchMultipleQueriesAsync ==
    /\ pc = "call_async"
    /\ result' = Some(search_multiple_queries_async(get_search_queries, call.responses,
                                                   call.callback))
    /\ pc' = "returned"
    /\ UNCHANGED <<call, processVars>>

Next ==
    \/ Main
    \/ RunContinuousStartup
    \/ CheckAndNotifyLoad
    \/ SearchTweets
    \/ SearchReturn
    \/ SendTweet
    \/ SendSummary
    \/ SaveOpen
    \/ SaveWrite
    \/ CycleRaises
    \/ Sleep
    \/ KeyboardInterrupt

Spec == Init /\ [][Next]_vars

NextAgg ==
    \/ CheckAndNotifyLoad
    \/ SearchTweets
    \/ SearchReturn

SpecAgg == InitAgg /\ [][NextAgg]_vars

NextKeywords ==
    \/ CategorizeTweet
    \/ GetSearchQueries
    \/ BuildOptimizedQuery

SpecKeywords == InitKeywords /\ [][NextKeywords]_vars

NextAsync ==
    \/ SearchMultipleQueries
    \/ SearchMultipleQueriesAsync

SpecAsync == InitAsync /\ [][NextAsync]_vars

\* Every step the process takes by itself; KeyboardInterrupt and an exception
\* are the environment's.  A network call returns or raises and the sleep ends.
ProgramStep ==
    \/ Main
    \/ RunContinuousStartup
    \/ CheckAndNotifyLoad
    \/ SearchTweets
    \/ SearchReturn
    \/ SendTweet
    \/ SendSummary
    \/ SaveOpen
    \/ SaveWrite
    \/ Sleep

FairSpec == InitSteady /\ [][Next]_vars /\ WF_vars(ProgramStep)

\* ------------------------------------------------------------- properties

\* search_multiple_queries has returned and the batch has not begun
Returned == (pc = "batch" /\ ti = 1) \/ outcome = "empty"

Interrupted == pc = "exit" /\ mode = "forever" /\ exit_status = "ok"

TweetMessages(box) == {i \in 1..Len(box) : box[i].msg.kind = "tweet"}

\* C1: the persisted checkpoint never decreases: the identifier in the file is
\* at every moment of a cycle greater than or equal to the one the file held
\* when the cycle started.
C1_CheckpointNeverDecreases ==
    (file0.content # None /\ file.content # None) => file.content[1] >= file0.content[1]

\* C2: at most once: no identifier handed to the messaging collaborator as a
\* tweet message in this cycle was handed to it in an earlier cycle.
C2_AtMostOnce == TweetIdsIn(outbox) \cap prior = {}

\* C3: a cycle that found zero tweets leaves the checkpoint file as it was at
\* the start of the cycle, and save_last_tweet_id did not run.
C3_EmptyCycleKeepsCheckpoint ==
    outcome = "empty" => (file = file0 /\ save_result = "none")

C3_Witness == outcome = "empty" /\ prior # {} /\ file0.content # None

\* C4: every cycle that ends without an exception has sent a summary message,
\* and a cycle that found zero tweets has sent the fixed "no new tweets" one.
C4_SummaryEveryCycle ==
    /\ outcome = "complete" => \E i \in 1..Len(outbox) : outbox[i].msg.kind = "summary"
    /\ outcome = "empty" => \E i \in 1..Len(outbox) : outbox[i].msg.kind = "no_new_tweets"

\* C5: the result of search_multiple_queries holds every identifier that some
\* query returned exactly once: none twice, none dropped, none made up.
C5_EachIdOnce ==
    Returned =>
        /\ \A id \in DOMAIN first_seen :
              Cardinality({i \in 1..Len(tweets) : tweets[i].id = id}) = 1
        /\ \A i \in 1..Len(tweets) : tweets[i].id \in DOMAIN first_seen

C5_Witness == Returned /\ again # {} /\ Len(tweets) = Cardinality(DOMAIN first_seen)

\* C6: the tweet kept for an identifier is the first one returned, in query
\* order; a later occurrence does not replace it, and its categories are
\* those of its own text.
C6_FirstOccurrenceKept ==
    Returned =>
        \A i \in 1..Len(tweets) :
            /\ tweets[i].likes = first_seen[tweets[i].id].rec.likes
            /\ tweets[i].text = TweetText(tweets[i].id)
            /\ tweets[i].categories = categorize_tweet(tweets[i].text)

C6_Witness ==
    /\ Returned
    /\ \E i \in 1..Len(tweets) :
          tweets[i].id \in again /\ tweets[i].likes = 1 /\ tweets[i].categories # <<>>

\* C7: the result of search_multiple_queries is sorted by created_at, newest
\* first, and tweets of equal created_at stand in the order in which they were
\* first returned.
C7_SortedNewestFirst ==
    Returned =>
        \A i \in 1..(Len(tweets) - 1) :
            \/ tweets[i].created_at > tweets[i + 1].created_at
            \/ /\ tweets[i].created_at = tweets[i + 1].created_at
               /\ first_seen[tweets[i].id].pos < first_seen[tweets[i + 1].id].pos

C7_Witness ==
    /\ Returned
    /\ Len(tweets) >= 2
    /\ first_seen[tweets[1].id].pos > first_seen[tweets[2].id].pos

C9_FailedCycleKeepsCheckpoint ==
    outcome = "failed" => (file = file0 /\ save_result = "none")

C9_Witness ==
    /\ outcome = "failed"
    /\ \E i \in TweetMessages(outbox) : outbox[i].ok

\* C10: in run-forever mode, from every moment of the loop on, also after a
\* cycle that raised, another cycle is started unless the process is
\* interrupted.
C10_CyclesGoOn ==
    (mode = "forever" /\ outcome # "none") ~> (pc = "load" \/ Interrupted)

C10_Witness == mode = "forever" /\ pc = "load" /\ outcome = "failed"

\* C11: when search_tweets fails for a query (tweepy.TweepyException) the
\* failing call adds nothing to the aggregate, every query of the cycle is
\* still executed, and every tweet the other queries returned is in the
\* result of search_multiple_queries.
C11_FailedQueryIsolated ==
    /\ [](Returned /\ "error" \in SeqRange(searched) =>
            /\ Len(searched) = Len(get_search_queries)
            /\ \A id \in DOMAIN first_seen : \E i \in 1..Len(tweets) : tweets[i].id = id)
    /\ [][(Len(searched') = Len(searched) + 1 /\ searched'[Len(searched')] = "error")
            => all_tweets' = all_tweets]_vars

C11_Witness ==
    /\ Returned
    /\ Len(searched) = 3
    /\ searched[2] = "error"
    /\ Len(tweets) = 2

\* C12: when send_tweets_batch has returned, one send was attempted for every
\* tweet of the batch, in the order of the batch, whatever the earlier sends
\* returned, and the count it returns is the number of sends that succeeded.
C12_BatchSendsAll ==
    pc = "summary" =>
        /\ Len(outbox) = Len(tweets)
        /\ \A i \in 1..Len(tweets) :
              outbox[i].msg.kind = "tweet" /\ outbox[i].msg.id = tweets[i].id
        /\ success_count = Cardinality({i \in 1..Len(outbox) : outbox[i].ok})

C12_Witness ==
    /\ pc = "summary"
    /\ Len(tweets) >= 2
    /\ ~outbox[1].ok
    /\ outbox[2].ok

\* C13: the checkpoint write is atomic: in every state, and so wherever the
\* process is interrupted, the file is as it was when the cycle started or
\* holds the whole new value, the greatest identifier of the cycle's tweets;
\* it is never empty.
C13_CheckpointWriteAtomic ==
    \/ file = file0
    \/ /\ tweets # <<>>
       /\ file = FileWith(Some(newest_tweet_id(tweets)))

CatalogIndex(category) == CHOOSE i \in 1..Len(KEYWORDS) : KEYWORDS[i].category = category

\* the keywords of a category that occur in the text, both taken as written
\* but for the text, which is lower-cased
OccurAsWritten(category, text) ==
    {j \in 1..Len(KeywordsOf(category)) :
        Contains(Lower(text), KeywordsOf(category)[j])}

\* the keywords of a category that occur in the text, letter case ignored
Occur(category, text) ==
    {j \in 1..Len(KeywordsOf(category)) :
        Contains(Lower(text), Lower(KeywordsOf(category)[j]))}

\* C14 as claimed: categorize_tweet(text) holds a category exactly when one of
\* its keywords is a substring of the lower-cased text, and the categories
\* stand by descending score (matching keywords times priority), equal scores
\* in catalog order.
C14_CategorizeBySubstring ==
    (pc = "returned" /\ call.fn = "categorize_tweet") =>
        /\ \A c \in Categories :
              c \in SeqRange(result) <=> OccurAsWritten(c, call.tweet_text) # {}
        /\ \A i \in 1..(Len(result) - 1) :
              LET a == Cardinality(OccurAsWritten(result[i], call.tweet_text))
                          * get_category_priority(result[i])
                  b == Cardinality(OccurAsWritten(result[i + 1], call.tweet_text))
                          * get_category_priority(result[i + 1])
              IN a > b \/ (a = b /\ CatalogIndex(result[i]) < CatalogIndex(result[i + 1]))

\* C14 amended: categorize_tweet(text) holds a category exactly when one of
\* its keywords, lower-cased, is a substring of the lower-cased text (the match
\* ignores letter case on both sides), and the categories stand by descending
\* score (keywords matching in that sense times priority), equal scores in
\* catalog order.
C14_CategorizeIgnoringCase ==
    (pc = "returned" /\ call.fn = "categorize_tweet") =>
        /\ \A c \in Categories :
              c \in SeqRange(result) <=> Occur(c, call.tweet_text) # {}
        /\ \A i \in 1..(Len(result) - 1) :
              LET a == Cardinality(Occur(result[i], call.tweet_text))
                          * get_category_priority(result[i])
                  b == Cardinality(Occur(result[i + 1], call.tweet_text))
                          * get_category_priority(result[i + 1])
              IN a > b \/ (a = b /\ CatalogIndex(result[i]) < CatalogIndex(result[i + 1]))

\* a tie of scores between two categories, the one of lower priority first
C14_Witness ==
    /\ pc = "returned"
    /\ call.fn = "categorize_tweet"
    /\ Len(result) >= 2
    /\ Cardinality(Occur(result[1], call.tweet_text)) * get_category_priority(result[1])
         = Cardinality(Occur(result[2], call.tweet_text)) * get_category_priority(result[2])
    /\ get_category_priority(result[1]) < get_category_priority(result[2])
    /\ OccurAsWritten(result[1], call.tweet_text) # Occur(result[1], call.tweet_text)

\* C15: get_search_queries() in per-category mode returns one query for every
\* category of the catalog and no other, by descending priority, categories
\* of equal priority in catalog order.
C15_OneQueryPerCategory ==
    (pc = "returned" /\ call.fn = "get_search_queries" /\ ~call.combine_categories) =>
        /\ Len(result) = Cardinality(Categories)
        /\ \A c \in Categories :
              Cardinality({i \in 1..Len(result) : result[i].category = c}) = 1
        /\ \A i \in 1..(Len(result) - 1) :
              LET a == get_category_priority(result[i].category)
                  b == get_category_priority(result[i + 1].category)
              IN a > b \/ (a = b /\ CatalogIndex(result[i].category)
                                        < CatalogIndex(result[i + 1].category))

C15_Witness ==
    /\ pc = "returned"
    /\ call.fn = "get_search_queries"
    /\ ~call.combine_categories
    /\ Len(result) >= 3
    /\ CatalogIndex(result[Len(result)].category) = 1

\* the positions of a list of category names that name a catalog category
InCatalog(categories) == {i \in 1..Len(categories) : categories[i] \in Categories}

\* how many times the character ch stands in the string s
CountChar(s, ch) == Cardinality({i \in 1..Len(s) : s[i] = ch})

\* C16 as claimed: the output of build_optimized_query holds every keyword of
\* every selected category, every multi-word keyword in quotes, the keywords
\* of one category joined with OR, and one pair of parentheses for every
\* selected category.
C16_QueryHoldsEveryKeyword ==
    (pc = "returned" /\ call.fn = "build_optimized_query") =>
        /\ \A i \in InCatalog(call.categories) :
              LET ks == KeywordsOf(call.categories[i])
              IN /\ \A j \in 1..Len(ks) :
                       /\ Contains(result, ks[j])
                       /\ " " \in SeqRange(ks[j]) => Contains(result, Quote(ks[j]))
                 /\ \A j \in 1..(Len(ks) - 1) :
                       Contains(result, ks[j] \o <<"\"">> \o <<" ","O","R"," ">>
                                            \o <<"\"">> \o ks[j + 1])
        /\ CountChar(result, "(") = Cardinality(InCatalog(call.categories))
        /\ CountChar(result, ")") = Cardinality(InCatalog(call.categories))

\* C16 amended: the output of build_optimized_query holds, for every selected
\* category of the catalog, its first five keywords and none of its later
\* ones, every keyword in quotes (one-word keywords too), the keywords of one
\* category joined with OR inside one pair of parentheses; a selected name
\* that is not in the catalog adds nothing.
C16_QueryHoldsFirstFive ==
    (pc = "returned" /\ call.fn = "build_optimized_query") =>
        /\ \A i \in InCatalog(call.categories) :
              LET ks == KeywordsOf(call.categories[i])
                  n == IF Len(ks) < 5 THEN Len(ks) ELSE 5
              IN /\ \A j \in 1..n : Contains(result, Quote(ks[j]))
                 /\ \A j \in (n + 1)..Len(ks) : ~Contains(result, Quote(ks[j]))
                 /\ \A j \in 1..(n - 1) :
                       Contains(result, Quote(ks[j]) \o <<" ","O","R"," ">> \o Quote(ks[j + 1]))
                 /\ Contains(result, <<"(">> \o Quote(ks[1]))
                 /\ Contains(result, Quote(ks[n]) \o <<")">>)
        /\ CountChar(result, "(") = Cardinality(InCatalog(call.categories))
        /\ CountChar(result, ")") = Cardinality(InCatalog(call.categories))

\* a category of more than five keywords selected together with one of fewer
C16_Witness ==
    /\ pc = "returned"
    /\ call.fn = "build_optimized_query"
    /\ call.use_filters
    /\ Len(call.categories) >= 2
    /\ \E i \in InCatalog(call.categories) : Len(KeywordsOf(call.categories[i])) > 5
    /\ \E i \in InCatalog(call.categories) : Len(KeywordsOf(call.categories[i])) < 5

\* C17: in run-once mode the end of the cycle is the end of the process, with
\* a non-zero status when an exception left the cycle and status zero
\* otherwise, and no cycle is started but the one main starts.
C17_RunOnce ==
    /\ [](mode = "once" /\ outcome \in {"empty", "complete", "failed"} =>
            /\ pc = "exit"
            /\ exit_status = IF outcome = "failed" THEN "error" ELSE "ok")
    /\ [][mode = "once" /\ pc' = "load" /\ pc # "load" => pc = "main"]_vars

C17_Witness ==
    /\ mode = "once"
    /\ outcome = "failed"
    /\ exit_status = "error"
    /\ outbox # <<>>

\* C18: when one of the three required configuration values is absent the
\* process does nothing but exit with a non-zero status: no cycle starts,
\* nothing is searched, no message is sent, the startup notification
\* included, and the checkpoint file is neither read nor written.
C18_NoCycleWithoutConfig ==
    (\E field \in required_fields : Missing(config, field)) =>
        /\ pc \in {"main", "exit"}
        /\ pc = "exit" => exit_status = "error"
        /\ outcome = "none"
        /\ searched = <<>>
        /\ qi = 1
        /\ outbox = <<>>
        /\ last_tweet_id = None
        /\ file = file0

C18_Witness ==
    /\ pc = "exit"
    /\ exit_status = "error"
    /\ mode = "forever"
    /\ config["TELEGRAM_CHAT_ID"] = None
    /\ \A field \in required_fields \ {"TELEGRAM_CHAT_ID"} : ~Missing(config, field)

\* C19: in run-forever mode cycles come one after the other: no cycle is
\* started while one is running, the end of a cycle, failed or not, is the
\* begin of the sleep, the sleep ends in the start of the next cycle (or in
\* the interrupt), and but for the first no cycle starts otherwise.
C19_OneSleepBetweenCycles ==
    /\ [](mode = "forever" /\ pc \in {"load", "sleep"} => outcome # "running")
    /\ [][mode = "forever" =>
            /\ (outcome = "running" /\ outcome' # "running") => pc' = "sleep"
            /\ (pc' = "load" /\ pc # "load") => pc \in {"sleep", "startup"}
            /\ (pc = "sleep" /\ pc' # "sleep") => pc' \in {"load", "exit"}]_vars

\* a cycle after the first has failed and the loop sleeps
C19_Witness ==
    /\ mode = "forever"
    /\ pc = "sleep"
    /\ outcome = "failed"
    /\ prior # {}

\* C20: in run-forever mode one startup notification is handed to the
\* messaging collaborator, before the first cycle starts, and none after it;
\* in run-once mode none is.
C20_OneStartupNotification ==
    /\ mode = "once" => startups = 0
    /\ mode = "forever" =>
          /\ startups <= 1
          /\ pc \in {"load", "search", "batch", "summary", "save", "write", "sleep"}
                => startups = 1
          /\ outcome # "none" => startups = 1

\* a second cycle has ended and there is still the one notification
C20_Witness ==
    /\ mode = "forever"
    /\ startups = 1
    /\ outcome = "complete"
    /\ prior # {}

\* C21: in every cycle load_last_tweet_id is called once, before any search
\* call; save_last_tweet_id is called at most once, and only when a message
\* for every tweet and then the summary have been handed to the messaging
\* collaborator; the file changes in no other way; and every search call is
\* given the value load_last_tweet_id returned as its since_id.
C21_ReadOnceWriteOnce ==
    /\ outcome # "none" => reads = 1
    /\ searched # <<>> => reads = 1
    /\ writes <= 1
    /\ file # file0 => writes = 1
    /\ writes = 1 =>
          /\ tweets # <<>>
          /\ Len(outbox) = Len(tweets) + 1
          /\ \A i \in 1..Len(tweets) : outbox[i].msg.kind = "tweet"
          /\ outbox[Len(outbox)].msg.kind = "summary"
    /\ since_ids \subseteq {last_tweet_id}

C21_Witness ==
    /\ pc = "write"
    /\ writes = 1
    /\ last_tweet_id # None
    /\ since_ids = {last_tweet_id}
    /\ prior # {}

\* C22: in a cycle whose search returned n >= 1 tweets the messages handed to
\* the messaging collaborator are, in this order, one message per tweet in the
\* order of the search result and then one summary whose count is n, whatever
\* the sends returned: at every moment they are a prefix of that sequence, and
\* the whole of it once the summary has been sent.
C22_OneMessagePerTweetThenSummary ==
    outcome # "none" =>
        /\ tweets = <<>> => outbox = <<>>
        /\ Len(outbox) <= Len(tweets) + 1
        /\ \A i \in 1..Len(outbox) :
              IF i <= Len(tweets)
              THEN outbox[i].msg.kind = "tweet" /\ outbox[i].msg.id = tweets[i].id
              ELSE outbox[i].msg.kind = "summary" /\ outbox[i].msg.count = Len(tweets)
        /\ pc = "summary" => Len(outbox) = Len(tweets)
        /\ (tweets # <<>> /\ (pc \in {"save", "write"} \/ outcome = "complete")) =>
              Len(outbox) = Len(tweets) + 1

C22_Witness ==
    /\ pc = "save"
    /\ Len(tweets) >= 2
    /\ success_count < Len(tweets)
    /\ ~outbox[1].ok
    /\ outbox[Len(outbox)].msg.count = 2

\* the tally of a category in a Counter: 0 for a key it does not hold
Tally(counter, c) == IF c \in DOMAIN counter THEN counter[c] ELSE 0

\* C23: the tally of a cycle holds, for every category, the number of the
\* cycle's tweets whose categories include it, and holds no other key: a tweet
\* of k categories adds 1 to each of the k and a tweet of none adds nothing.
\* The summary carries this tally.
C23_TallyCountsTweetsPerCategory ==
    outcome # "none" =>
        /\ DOMAIN category_counter \subseteq Categories
        /\ \A c \in Categories :
              Tally(category_counter, c) =
                  Cardinality({i \in 1..Len(tweets) : c \in SeqRange(tweets[i].categories)})
        /\ \A c \in DOMAIN category_counter : category_counter[c] >= 1
        /\ \A i \in 1..Len(outbox) :
              outbox[i].msg.kind = "summary" =>
                  /\ DOMAIN outbox[i].msg.tally = DOMAIN category_counter
                  /\ \A c \in DOMAIN category_counter :
                        outbox[i].msg.tally[c] = category_counter[c]

C23_Witness ==
    /\ pc = "save"
    /\ \E i \in 1..Len(tweets) : Len(tweets[i].categories) >= 2
    /\ \E i \in 1..Len(tweets) : tweets[i].categories = <<>>
    /\ Cardinality(DOMAIN category_counter) = 2

\* the tweets of the answer to query i whose id no earlier answer held, in the
\* order of the answer
NewOf(responses, i) ==
    LET Fresh(t) == \A j \in 1..(i - 1) : \A k \in 1..Len(responses[j]) :
                        responses[j][k].id # t.id
    IN SelectSeq(search_tweets(responses[i]), Fresh)

\* the queries whose answer held a tweet no earlier answer held
Adding(responses) == {i \in 1..Len(responses) : NewOf(responses, i) # <<>>}

\* C24: given the same queries, since_id and answers of the search
\* collaborator, search_multiple_queries_async returns the sequence
\* search_multiple_queries returns, with a callback or without; without one it
\* calls nothing, and with one it calls it once for every query that inserted
\* tweets, in query order, with exactly the tweets that query inserted and the
\* query's category, and not at all for a query that inserted none.
C24_AsyncReturnsThePlainResult ==
    (pc = "returned" /\ call.fn = "search_multiple_queries") =>
        LET responses == call.responses
            callbacks == result[1].callbacks
            Nth(k) == CHOOSE i \in Adding(responses) :
                          Cardinality({j \in Adding(responses) : j < i}) = k - 1
        IN /\ result[1].sorted_tweets = tweets
           /\ ~call.callback => callbacks = <<>>
           /\ call.callback =>
                 /\ Len(callbacks) = Cardinality(Adding(responses))
                 /\ \A k \in 1..Len(callbacks) :
                       /\ callbacks[k].new_tweets = NewOf(responses, Nth(k))
                       /\ callbacks[k].category = get_search_queries[Nth(k)].category

C24_Witness ==
    /\ pc = "returned"
    /\ call.fn = "search_multiple_queries"
    /\ call.callback
    /\ Len(tweets) = 2
    /\ Len(result[1].callbacks) = 2
    /\ \E i \in 1..Len(call.responses) :
          call.responses[i] # <<>> /\ NewOf(call.responses, i) = <<>>

\* the file holds no identifier: it is absent or empty
NoCheckpoint(f) == f.content = None

\* C25: the file never comes to hold an identifier that was not fetched and
\* handed to the messaging collaborator in a tweet message: whenever the file
\* changes it becomes empty or holds the identifier of a tweet message already
\* handed over in this cycle, so in every state it is as it was when the cycle
\* started (by induction, as before the first cycle or as an earlier cycle
\* wrote it), or holds no identifier, or holds such an identifier.
C25_CheckpointWasNotified ==
    /\ [](\/ file = file0
          \/ NoCheckpoint(file)
          \/ file.content[1] \in TweetIdsIn(outbox))
    /\ [][file' # file =>
              \/ NoCheckpoint(file')
              \/ /\ file'.content[1] \in TweetIdsIn(outbox)
                 /\ file'.content[1] \in {tweets[i].id : i \in 1..Len(tweets)}]_vars

C25_Witness ==
    /\ save_result = "saved"
    /\ file # file0
    /\ ~NoCheckpoint(file)
    /\ prior # {}
    /\ \E i \in 1..Len(outbox) :
          /\ outbox[i].msg.kind = "tweet"
          /\ outbox[i].msg.id = file.content[1]
          /\ ~outbox[i].ok

====
